---- MODULE Spec2Model ----
(***************************************************************************)
(* GLEIF LEI resolution engine of equity-aggregator.                       *)
(*                                                                         *)
(* One GleifFeed instance shared by a fixed set of asyncio tasks, each of  *)
(* which runs one fetch_equity call.  A step of the model is a synchronous *)
(* segment of a coroutine, from one await to the next.  The remote         *)
(* registry and the downloads are the environment: every outbound call     *)
(* nondeterministically fails or returns one of a small set of payloads.   *)
(***************************************************************************)
EXTENDS Integers, Sequences, FiniteSets, TLC

\* ------------------------------------------------------------------ bounds
NumTasks == 2

Tasks == 1..NumTasks

\* ------------------------------------------------------- values of the model
NoneVal == "None"
_NO_MATCH_SENTINEL == ""

Names == {"n1", "n2"}
ISINs == {"i1", "i2"}
CandidateLEIs == {"L1", "L2"}

\* The queries the callers issue: (symbol, name, isin or None).
Queries ==
    { [symbol |-> "s1", name |-> "n1", isin |-> "i1"],
      [symbol |-> "s2", name |-> "n2", isin |-> NoneVal] }

\* (legal_name, lei) pairs the autocomplete endpoint may return.
CandidateEntities ==
    { <<"la", "L1">>, <<"lb", "L2">> }

\* (legal_name, lei) pairs the parent lookup may return.  Ownership in the
\* registry is irreflexive: a parent never carries the LEI of a candidate.
ParentEntities ==
    { <<"lc", "P1">>, <<"lb", "P2">> }

\* rapidfuzz fuzz.WRatio(equity_name, legal_name, default_process): a fixed
\* table with a perfect match, values on both sides of the cutoff, a value
\* exactly at the cutoff and a tie.
WRatio(equity_name, legal_name) ==
    CASE equity_name = "n1" /\ legal_name = "la" -> 90
      [] equity_name = "n1" /\ legal_name = "lb" -> 70
      [] equity_name = "n1" /\ legal_name = "lc" -> 10
      [] equity_name = "n2" /\ legal_name = "la" -> 69
      [] equity_name = "n2" /\ legal_name = "lb" -> 100
      [] equity_name = "n2" /\ legal_name = "lc" -> 100
      [] OTHER -> 0

ScoreCutoff == 70

\* ------------------------------------------------------------ ISIN index
\* dict[str, str] | None: none = TRUE is Python's None, otherwise map gives
\* the LEI of every key of the dict and NoneVal for the other ISINs.
EmptyMap == [i \in ISINs |-> NoneVal]
IndexNone == [none |-> TRUE, map |-> EmptyMap]
IndexOf(m) == [none |-> FALSE, map |-> m]

IsEmptyDict(ix) == \A i \in ISINs : ix.map[i] = NoneVal

\* The rows of the CSV file, as (ISIN, LEI) after .strip().upper(): no row
\* or one row, in which either field may be empty.
CsvRowLists ==
    {<< >>} \cup {<< <<i, l>> >> : i \in ISINs \cup {""}, l \in {"LX", ""}}

\* if isin and lei
KeepsRow(row) == row[1] # "" /\ row[2] # ""

RECURSIVE IndexFromRows(_, _)
\* for row in reader: ... index[isin] = lei
IndexFromRows(rows, map) ==
    IF rows = << >> THEN map
    ELSE IndexFromRows(Tail(rows),
                       IF KeepsRow(Head(rows))
                       THEN [map EXCEPT ![Head(rows)[1]] = Head(rows)[2]]
                       ELSE map)

\* Indices a successful download-and-parse may produce (the empty one too).
DownloadableIndices ==
    { IndexOf(IndexFromRows(rows, EmptyMap)) : rows \in CsvRowLists }

\* What the index cache holds when the feed is created: nothing, or a
\* populated index an earlier run saved.
StoredIndices ==
    { IndexNone, IndexOf([EmptyMap EXCEPT !["i1"] = "LX"]) }

\* ------------------------------------------------------- pure functions
\* fuzz.WRatio(..., score_cutoff=70): a score below the cutoff is reported
\* as 0, a score at or above it is reported unchanged.
WRatioWithCutoff(equity_name, legal_name) ==
    LET s == WRatio(equity_name, legal_name)
    IN IF s >= ScoreCutoff THEN s ELSE 0

\* An insertion that puts x in front of the elements of equal score.
RECURSIVE InsertByScore_BeforeEquals(_, _)
InsertByScore_BeforeEquals(x, sorted) ==
    IF sorted = << >> THEN << x >>
    ELSE IF Head(sorted)[1] > x[1]
         THEN << Head(sorted) >> \o InsertByScore_BeforeEquals(x, Tail(sorted))
         ELSE << x >> \o sorted

\* One insertion of Python's stable sorted(..., key=score, reverse=True):
\* x goes behind every element whose score is not smaller.
RECURSIVE InsertByScore(_, _)
InsertByScore(x, sorted) ==
    IF sorted = << >> THEN << x >>
    ELSE IF Head(sorted)[1] >= x[1]
         THEN << Head(sorted) >> \o InsertByScore(x, Tail(sorted))
         ELSE << x >> \o sorted

RECURSIVE SortedByScore(_)
SortedByScore(scored) ==
    IF scored = << >> THEN << >>
    ELSE InsertByScore(scored[Len(scored)],
                       SortedByScore(SubSeq(scored, 1, Len(scored) - 1)))

ScoredCandidates(equity_name, candidates) ==
    [k \in 1..Len(candidates) |->
        << WRatioWithCutoff(equity_name, candidates[k][1]),
           candidates[k][1], candidates[k][2] >>]

\* A ranking that drops no candidate.
KeepsScore_All(score) == TRUE

\* if score > 0 (a score under score_cutoff is 0)
KeepsScore(score) == score > 0

rank_candidates(equity_name, candidates) ==
    IF candidates = << >> THEN << >>
    ELSE LET sorted == SortedByScore(ScoredCandidates(equity_name, candidates))
             kept == SelectSeq(sorted, LAMBDA e : KeepsScore(e[1]))
         IN [k \in 1..Len(kept) |-> << kept[k][2], kept[k][3] >>]

\* A selection loop that lets a later parent of equal score take over.
RECURSIVE BestParentLoop_LastWins(_, _, _, _)
BestParentLoop_LastWins(equity_name, rest, best_score, best_lei) ==
    IF rest = << >> THEN best_lei
    ELSE LET score == WRatio(equity_name, Head(rest)[1])
         IN IF score >= best_score
            THEN BestParentLoop_LastWins(equity_name, Tail(rest), score,
                                         Head(rest)[2])
            ELSE BestParentLoop_LastWins(equity_name, Tail(rest), best_score,
                                         best_lei)

RECURSIVE BestParentLoop(_, _, _, _)
BestParentLoop(equity_name, rest, best_score, best_lei) ==
    IF rest = << >> THEN best_lei
    ELSE LET score == WRatio(equity_name, Head(rest)[1])
         IN IF score > best_score
            THEN BestParentLoop(equity_name, Tail(rest), score, Head(rest)[2])
            ELSE BestParentLoop(equity_name, Tail(rest), best_score, best_lei)

select_best_parent(equity_name, parents) ==
    IF parents = << >> THEN NoneVal
    ELSE BestParentLoop(equity_name, Tail(parents),
                        WRatio(equity_name, parents[1][1]), parents[1][2])

\* _try_parent_traversal that takes the parent only when its name scores
\* at least the cutoff.
TryParentTraversal_ScoreGated(equity_name, candidate_lei, parents) ==
    LET parent_lei == select_best_parent(equity_name, parents)
        good == \E k \in 1..Len(parents) :
                   /\ parents[k][2] = parent_lei
                   /\ WRatio(equity_name, parents[k][1]) >= ScoreCutoff
    IN IF parent_lei # NoneVal /\ good THEN parent_lei ELSE candidate_lei

\* _try_parent_traversal, given the parents fetch_parents returned.
TryParentTraversal(equity_name, candidate_lei, parents) ==
    LET parent_lei == select_best_parent(equity_name, parents)
    IN IF parent_lei # NoneVal THEN parent_lei ELSE candidate_lei

\* _resolve_cached_value without the test for the sentinel.
_resolve_cached_value_NoSentinelTest(entry) == entry

\* _resolve_cached_value(cached)
_resolve_cached_value(entry) ==
    IF entry = _NO_MATCH_SENTINEL THEN NoneVal ELSE entry

\* _cache_name_result storing lei as it is, None included.
CachedValueFor_StoresNone(lei) == lei

\* _cache_name_result: value = lei if lei is not None else _NO_MATCH_SENTINEL
CachedValueFor(lei) ==
    IF lei # NoneVal THEN lei ELSE _NO_MATCH_SENTINEL

\* _lookup_by_isin that never finds the ISIN.
_lookup_by_isin_AlwaysMiss(isin, index) == NoneVal

\* _lookup_by_isin(isin)
_lookup_by_isin(isin, index) ==
    IF isin = NoneVal \/ index.none THEN NoneVal ELSE index.map[isin]

\* Python truthiness of cache_key (None and "" are falsy).
Truthy(key) == key # NoneVal /\ key # ""

\* A filter that keeps every candidate.
FilterActive_KeepAll(candidates, active_leis) == candidates

\* [(name, lei) for name, lei in candidates if lei in active_leis]
FilterActive(candidates, active_leis) ==
    SelectSeq(candidates, LAMBDA c : c[2] \in active_leis)

\* The lists of distinct elements of S, the empty list among them.
ListsOf(S) ==
    { s \in UNION { [1..k -> S] : k \in 0..Cardinality(S) } :
        \A a, b \in 1..Len(s) : a # b => s[a] # s[b] }

\* The answers of the registry: each entity at most once, in any order.
CandidateLists == ListsOf(CandidateEntities)
ParentLists == ListsOf(ParentEntities)

\* The items of the bodies the registry answers with, as (name, id): the
\* entities and an item whose id is the empty string.
RawCandidateLists == ListsOf(CandidateEntities \cup {<<"la", "">>})
RawParentLists == ListsOf(ParentEntities \cup {<<"lc", "">>})

\* _has_valid_completion_fields(item): has_name and has_lei
_has_valid_completion_fields(item) == item[1] # "" /\ item[2] # ""

\* _parse_autocompletions(payload)
_parse_autocompletions(items) ==
    SelectSeq(items, _has_valid_completion_fields)

\* A field check that tests the legal name only.
_has_valid_lei_record_fields_NameOnly(item) == item[1] # ""

\* _has_valid_lei_record_fields(item): has_id and has_name
_has_valid_lei_record_fields(item) == item[2] # "" /\ item[1] # ""

\* _parse_lei_records(payload)
_parse_lei_records(items) ==
    SelectSeq(items, _has_valid_lei_record_fields)

\* What the persistent name cache holds when the feed is created: nothing,
\* a stored negative result, or a stored LEI.
EmptyNameCache == [n \in Names |-> NoneVal]
SeededNameCaches ==
    { EmptyNameCache,
      [EmptyNameCache EXCEPT !["n1"] = _NO_MATCH_SENTINEL],
      [EmptyNameCache EXCEPT !["n2"] = "L1"] }

\* ---------------------------------------------------------------- state
VARIABLES
    client_factory,   \* GleifFeed._client_factory: "custom" or None
    cache_key,        \* GleifFeed._cache_key: "gleif" or None
    isin_index,       \* GleifFeed._isin_index
    loaded,           \* GleifFeed._loaded
    lock,             \* GleifFeed._lock: the task holding it, 0 when free
    api_semaphore,    \* GleifFeed._api_semaphore: the holder, 0 when free
    index_store,      \* the cache entry load_cache(cache_key) reads
    name_cache,       \* the "gleif_names" cache: name -> LEI, "" or None
    pc,               \* where each task's fetch_equity call stands
    query,            \* the arguments of each task's current call
    candidates,       \* local of search_by_name
    best_lei,         \* local of _resolve_lei_from_api: ranked[0]'s LEI
    parents,          \* local of _try_parent_traversal
    cached,           \* local of _lookup_by_name: the cache entry read
    lei,              \* local lei of the call
    result,           \* how each task's call ended
    getIndexCalls,    \* number of _get_index executions
    apiFailed,        \* names whose entry is the sentinel an API search stored
    tier,             \* the tier each call took its LEI from
    warm,             \* whether the call found _loaded set on entry
    apiCalls,         \* outbound API requests of each call
    cacheReads,       \* name-cache reads of each call
    gateAcq,          \* admission-gate acquisitions of each call
    lastApi,          \* per name, the task whose API search completed last
    search,           \* a search_by_name call and its _fetch_with_retry loop
    gen,              \* a backoff_delays generator
    rank,             \* a rank_candidates call
    csv,              \* a _parse_csv call
    kw,               \* two fetch_equity calls differing in extra kwargs
    strip,            \* a strip_corporate_suffix call
    sel               \* a select_best_parent call

feedVars == << client_factory, cache_key, isin_index, loaded, lock,
               api_semaphore >>
envVars == << index_store, name_cache >>
taskVars == << pc, query, cached, candidates, best_lei, parents, lei,
              result >>
histVars == << getIndexCalls, apiFailed, tier, warm, apiCalls, cacheReads,
              gateAcq, lastApi >>
feedSpecVars == << feedVars, envVars, taskVars, histVars >>
auxVars == << search, gen, rank, csv, kw, strip, sel >>
vars == << feedSpecVars, auxVars >>

\* The value of a component variable outside the specification of its
\* component.
Idle == [phase |-> "unused"]

Unread == "unread"
NoQuery == [symbol |-> NoneVal, name |-> NoneVal, isin |-> NoneVal]
NoResult == [kind |-> "none", name |-> NoneVal, symbol |-> NoneVal,
             isin |-> NoneVal, lei |-> NoneVal]

\* A returned dict that also carries the extra keyword arguments.
Record_WithKwargs(q, l) ==
    [kind |-> "record", name |-> q.name, symbol |-> q.symbol,
     isin |-> q.isin, lei |-> l, extra |-> q.kwargs]

\* The dict fetch_equity returns.
Record(q, l) == [kind |-> "record", name |-> q.name, symbol |-> q.symbol,
                 isin |-> q.isin, lei |-> l]
Raised(kind) == [NoResult EXCEPT !.kind = kind]

\* The feed after GleifFeed.__init__, with the caches as they are then.
InitFeed ==
    /\ client_factory \in {"custom", NoneVal}
    /\ cache_key \in {"gleif", NoneVal}
    /\ isin_index = IndexNone
    /\ loaded = FALSE
    /\ lock = 0
    /\ api_semaphore = 0
    /\ index_store \in StoredIndices
    /\ cache_key = NoneVal => index_store = IndexNone
    /\ name_cache \in SeededNameCaches
    /\ pc = [t \in Tasks |-> "idle"]
    /\ query = [t \in Tasks |-> NoQuery]
    /\ cached = [t \in Tasks |-> Unread]
    /\ candidates = [t \in Tasks |-> << >>]
    /\ best_lei = [t \in Tasks |-> NoneVal]
    /\ parents = [t \in Tasks |-> << >>]
    /\ lei = [t \in Tasks |-> NoneVal]
    /\ result = [t \in Tasks |-> NoResult]
    /\ getIndexCalls = 0
    /\ apiFailed = {}
    /\ tier = [t \in Tasks |-> NoneVal]
    /\ warm = [t \in Tasks |-> FALSE]
    /\ apiCalls = [t \in Tasks |-> 0]
    /\ cacheReads = [t \in Tasks |-> 0]
    /\ gateAcq = [t \in Tasks |-> 0]
    /\ lastApi = [n \in Names |-> 0]

\* The feed in the specifications of the components, which never call it.
FeedUnused ==
    /\ InitFeed
    /\ client_factory = NoneVal
    /\ cache_key = NoneVal
    /\ name_cache = EmptyNameCache

Init ==
    /\ InitFeed
    /\ search = Idle
    /\ gen = Idle
    /\ rank = Idle
    /\ csv = Idle
    /\ kw = Idle
    /\ strip = Idle
    /\ sel = Idle

\* -------------------------------------------------------------- actions
\* _ensure_index_loaded, the check of _loaded before the lock.
OuterLoadedCheck == loaded

\* A caller starts fetch_equity(symbol=, name=, isin=) as task t; the call
\* runs to the first check of _ensure_index_loaded.  Tasks are started in
\* the order of their numbers.
Call(t) ==
    /\ pc[t] = "idle"
    /\ UNCHANGED << lastApi, auxVars >>
    /\ \A u \in Tasks : u < t => pc[u] # "idle"
    /\ \E q \in Queries : query' = [query EXCEPT ![t] = q]
    /\ pc' = [pc EXCEPT ![t] = IF OuterLoadedCheck THEN "lookup"
                                ELSE "lock_wait"]
    /\ warm' = [warm EXCEPT ![t] = loaded]
    /\ UNCHANGED << feedVars, envVars, cached, candidates, best_lei, parents,
                    lei, result, getIndexCalls, apiFailed, tier, apiCalls,
                    cacheReads, gateAcq >>

\* A lock that never makes a caller wait.
LockFree_NeverWaits == TRUE

\* asyncio.Lock: acquire() returns only when the lock is free.
LockFree == lock = 0

\* _ensure_index_loaded without the second check of _loaded.
InnerLoadedCheck_Skipped == FALSE

\* _ensure_index_loaded, the check of _loaded inside the lock.
InnerLoadedCheck == loaded

\* _load_from_cache(cache_key)
_load_from_cache == IF ~Truthy(cache_key) THEN IndexNone ELSE index_store

\* async with self._lock: the inner check and, when the index is not loaded,
\* the start of _get_index.  A cache hit ends the construction at once.
AcquireLock(t) ==
    /\ pc[t] = "lock_wait"
    /\ UNCHANGED << lastApi, auxVars >>
    /\ LockFree
    /\ IF InnerLoadedCheck
       THEN /\ pc' = [pc EXCEPT ![t] = "lookup"]
            /\ UNCHANGED << lock, isin_index, loaded, getIndexCalls >>
       ELSE /\ getIndexCalls' = getIndexCalls + 1
            /\ IF ~_load_from_cache.none
               THEN /\ isin_index' = _load_from_cache
                    /\ loaded' = TRUE
                    /\ pc' = [pc EXCEPT ![t] = "lookup"]
                    /\ UNCHANGED lock
               ELSE /\ lock' = t
                    /\ pc' = [pc EXCEPT ![t] = "metadata"]
                    /\ UNCHANGED << isin_index, loaded >>
    /\ UNCHANGED << client_factory, cache_key, api_semaphore, envVars, query,
                    cached, candidates, best_lei, parents, lei, result,
                    apiFailed, tier, warm, apiCalls, cacheReads, gateAcq >>

\* if index and cache_key: save_cache(cache_key, index)
SavesToCache(index) == ~index.none /\ ~IsEmptyDict(index) /\ Truthy(cache_key)

\* _download_and_cache returns index; _ensure_index_loaded stores it, sets
\* _loaded and leaves the lock.
FinishBuild(t, index) ==
    /\ isin_index' = index
    /\ loaded' = TRUE
    /\ lock' = 0
    /\ index_store' = IF SavesToCache(index) THEN index ELSE index_store
    /\ pc' = [pc EXCEPT ![t] = "lookup"]
    /\ UNCHANGED << result, tier >>

\* fetch_equity ends: return of the record or raise of an exception.
Finish(t, res, via) ==
    /\ result' = [result EXCEPT ![t] = res]
    /\ tier' = [tier EXCEPT ![t] = via]
    /\ pc' = [pc EXCEPT ![t] = "done"]

\* _download_and_cache: except Exception around the download.
CatchesBuildError == TRUE

\* The download raised: _download_and_cache returns None.  Were the error
\* not caught, it would leave the lock with _loaded unset and end
\* fetch_equity.
FailBuild(t, failure) ==
    IF CatchesBuildError
    THEN FinishBuild(t, IndexNone)
    ELSE /\ Finish(t, Raised("ValueError"), NoneVal)
         /\ lock' = 0
         /\ UNCHANGED << isin_index, loaded, index_store >>

\* download_and_build_isin_index: the metadata request.  An error response
\* and a missing download link are ValueErrors.
FetchMetadata(t) ==
    /\ pc[t] = "metadata"
    /\ UNCHANGED << lastApi, auxVars >>
    /\ \E r \in {"ok", "metadata_error", "missing_download_link"} :
          IF r = "ok"
          THEN /\ pc' = [pc EXCEPT ![t] = "stream"]
               /\ UNCHANGED << isin_index, loaded, lock, index_store,
                               result, tier >>
          ELSE FailBuild(t, r)
    /\ UNCHANGED << client_factory, cache_key, api_semaphore, name_cache,
                    query, cached, candidates, best_lei, parents, lei,
                    getIndexCalls, apiFailed, warm, apiCalls, cacheReads,
                    gateAcq >>

\* _download_and_parse: the streamed download and _parse_zip.  An HTTP error
\* status and an archive without a CSV are errors; otherwise the parsed
\* index is returned.
StreamAndParse(t) ==
    /\ pc[t] = "stream"
    /\ UNCHANGED << lastApi, auxVars >>
    /\ \/ \E r \in {"download_http_error", "no_csv_in_archive"} :
             FailBuild(t, r)
       \/ \E index \in DownloadableIndices :
             FinishBuild(t, index)
    /\ UNCHANGED << client_factory, cache_key, api_semaphore, name_cache,
                    query, cached, candidates, best_lei, parents, lei,
                    getIndexCalls, apiFailed, warm, apiCalls, cacheReads,
                    gateAcq >>

\* A cache key that is the same for every name.
NameCacheKey_Shared(name) == "n1"

\* The key of a name's entry in the "gleif_names" cache: the name itself,
\* as _lookup_by_name and _search_gleif_api pass it.
NameCacheKey(name) == name

\* load_cache_entry("gleif_names", name)
load_cache_entry(name) == name_cache[name]

\* fetch_equity after _ensure_index_loaded: _lookup_by_isin, and on a miss
\* _lookup_by_name up to the call of _search_gleif_api.
Lookup(t) ==
    /\ pc[t] = "lookup"
    /\ UNCHANGED << lastApi, auxVars >>
    /\ LET by_isin == _lookup_by_isin(query[t].isin, isin_index)
           entry == load_cache_entry(NameCacheKey(query[t].name))
           by_name == _resolve_cached_value(entry)
       IN IF by_isin # NoneVal
          THEN /\ lei' = [lei EXCEPT ![t] = by_isin]
               /\ Finish(t, Record(query[t], by_isin), "isin")
               /\ UNCHANGED << cacheReads, cached >>
          ELSE /\ cacheReads' = [cacheReads EXCEPT ![t] = @ + 1]
               /\ cached' = [cached EXCEPT ![t] = entry]
               /\ IF entry # NoneVal
                  THEN /\ lei' = [lei EXCEPT ![t] = by_name]
                       /\ IF by_name = NoneVal
                          THEN Finish(t, Raised("LookupError"), NoneVal)
                          ELSE Finish(t, Record(query[t], by_name),
                                      "name_cache")
                  ELSE /\ pc' = [pc EXCEPT ![t] = "gate_wait"]
                       /\ UNCHANGED << lei, result, tier >>
    /\ UNCHANGED << feedVars, envVars, query, candidates, best_lei, parents,
                    getIndexCalls, apiFailed, warm, apiCalls, gateAcq >>

\* A semaphore that admits every caller.
GateFree_AdmitsAll == TRUE

\* asyncio.Semaphore(1): acquire() returns only when the slot is free.
GateFree == api_semaphore = 0

\* async with self._api_semaphore, self._client_factory() as client:
\* with _client_factory None the call of it is a TypeError, which leaves the
\* semaphore and ends fetch_equity.
AcquireGate(t) ==
    /\ pc[t] = "gate_wait"
    /\ UNCHANGED << lastApi, auxVars >>
    /\ GateFree
    /\ gateAcq' = [gateAcq EXCEPT ![t] = @ + 1]
    /\ IF client_factory = NoneVal
       THEN /\ Finish(t, Raised("TypeError"), NoneVal)
            /\ UNCHANGED api_semaphore
       ELSE /\ api_semaphore' = t
            /\ pc' = [pc EXCEPT ![t] = "autocomplete"]
            /\ UNCHANGED << result, tier >>
    /\ UNCHANGED << client_factory, cache_key, isin_index, loaded, lock,
                    envVars, query, cached, candidates, best_lei, parents,
                    lei, getIndexCalls, apiFailed, warm, apiCalls,
                    cacheReads >>

\* search_by_name: the autocomplete request.  A failed request and an empty
\* answer are both the empty list, and _filter_active then returns [] with
\* no request, so that _resolve_lei_from_api returns None.
Autocomplete(t) ==
    /\ pc[t] = "autocomplete"
    /\ UNCHANGED << lastApi, auxVars >>
    /\ apiCalls' = [apiCalls EXCEPT ![t] = @ + 1]
    /\ \E raw \in RawCandidateLists :
          LET c == _parse_autocompletions(raw)
          IN /\ candidates' = [candidates EXCEPT ![t] = c]
             /\ pc' = [pc EXCEPT ![t] = IF c = << >> THEN "exit_gate"
                                         ELSE "active"]
    /\ UNCHANGED << feedVars, envVars, query, cached, best_lei, parents, lei,
                    result, getIndexCalls, apiFailed, tier, warm, cacheReads,
                    gateAcq >>

\* _filter_active: the active-status request (a failed request is the empty
\* set), then rank_candidates and the choice of ranked[0].
FilterAndRank(t) ==
    /\ pc[t] = "active"
    /\ UNCHANGED << lastApi, auxVars >>
    /\ apiCalls' = [apiCalls EXCEPT ![t] = @ + 1]
    /\ \E active_leis \in SUBSET CandidateLEIs :
          LET filtered == FilterActive(candidates[t], active_leis)
              ranked == rank_candidates(query[t].name, filtered)
          IN /\ candidates' = [candidates EXCEPT ![t] = << >>]
             /\ IF ranked = << >>
                THEN /\ pc' = [pc EXCEPT ![t] = "exit_gate"]
                     /\ UNCHANGED best_lei
                ELSE /\ best_lei' = [best_lei EXCEPT ![t] = ranked[1][2]]
                     /\ pc' = [pc EXCEPT ![t] = "parents"]
    /\ UNCHANGED << feedVars, envVars, query, cached, parents, lei, result,
                    getIndexCalls, apiFailed, tier, warm, cacheReads,
                    gateAcq >>

\* _try_parent_traversal: the parent request (a failed request is the empty
\* list) and select_best_parent.
ParentTraversal(t) ==
    /\ pc[t] = "parents"
    /\ UNCHANGED << lastApi, auxVars >>
    /\ apiCalls' = [apiCalls EXCEPT ![t] = @ + 1]
    /\ \E raw \in RawParentLists :
          LET p == _parse_lei_records(raw)
          IN /\ parents' = [parents EXCEPT ![t] = p]
             /\ lei' = [lei EXCEPT ![t] =
                           TryParentTraversal(query[t].name, best_lei[t], p)]
    /\ pc' = [pc EXCEPT ![t] = "exit_gate"]
    /\ UNCHANGED << feedVars, envVars, query, cached, candidates, best_lei,
                    result, getIndexCalls, apiFailed, tier, warm, cacheReads,
                    gateAcq >>

\* save_cache_entry("gleif_names", name, value)
save_cache_entry(name, value) == [name_cache EXCEPT ![name] = value]

\* The end of the async with block of _search_gleif_api (the client is
\* closed, the semaphore released), then _cache_name_result(name, lei), the
\* return of _search_gleif_api and the end of fetch_equity.
ExitGate(t) ==
    /\ pc[t] = "exit_gate"
    /\ UNCHANGED auxVars
    /\ api_semaphore' = 0
    /\ name_cache' = save_cache_entry(NameCacheKey(query[t].name),
                                      CachedValueFor(lei[t]))
    /\ lastApi' = [lastApi EXCEPT ![query[t].name] = t]
    /\ apiFailed' = IF lei[t] = NoneVal
                    THEN apiFailed \cup {query[t].name}
                    ELSE apiFailed \ {query[t].name}
    /\ IF lei[t] = NoneVal
       THEN Finish(t, Raised("LookupError"), NoneVal)
       ELSE Finish(t, Record(query[t], lei[t]), "api")
    /\ candidates' = [candidates EXCEPT ![t] = << >>]
    /\ best_lei' = [best_lei EXCEPT ![t] = NoneVal]
    /\ parents' = [parents EXCEPT ![t] = << >>]
    /\ UNCHANGED << client_factory, cache_key, isin_index, loaded, lock,
                    index_store, query, cached, lei, getIndexCalls, warm,
                    apiCalls, cacheReads, gateAcq >>

Next ==
    \/ \E t \in Tasks : Call(t)
    \/ \E t \in Tasks : AcquireLock(t)
    \/ \E t \in Tasks : FetchMetadata(t)
    \/ \E t \in Tasks : StreamAndParse(t)
    \/ \E t \in Tasks : Lookup(t)
    \/ \E t \in Tasks : AcquireGate(t)
    \/ \E t \in Tasks : Autocomplete(t)
    \/ \E t \in Tasks : FilterAndRank(t)
    \/ \E t \in Tasks : ParentTraversal(t)
    \/ \E t \in Tasks : ExitGate(t)

Spec == Init /\ [][Next]_vars

TypeOK ==
    /\ loaded \in BOOLEAN
    /\ lock \in 0..NumTasks
    /\ api_semaphore \in 0..NumTasks
    /\ \A t \in Tasks : result[t].kind \in
          {"none", "record", "LookupError", "TypeError", "ValueError"}

\* ---------------------------------------------------------------- claims
\* The positions of a call behind _ensure_index_loaded.
PastEnsure == {"lookup", "gate_wait", "autocomplete", "active", "parents",
               "exit_gate", "done"}

\* The positions of a call inside the async with block of _search_gleif_api.
InApiSection(t) ==
    pc[t] \in {"autocomplete", "active", "parents", "exit_gate"}

\* The index holds the ISIN of task t's query.
ContainsIsin(t) ==
    /\ query[t].isin # NoneVal
    /\ ~isin_index.none
    /\ isin_index.map[query[t].isin] # NoneVal

\* C1: on a cold feed, however many fetch_equity calls run concurrently,
\* _get_index is executed exactly once, and every caller resolves its ISIN
\* against the index that one construction produced.
C1_SingleConstruction ==
    /\ getIndexCalls <= 1
    /\ \A t \in Tasks : pc[t] \in PastEnsure => getIndexCalls = 1 /\ loaded
    /\ \A t \in Tasks : pc[t] = "done" =>
          IF ContainsIsin(t)
          THEN result[t] = Record(query[t], isin_index.map[query[t].isin])
          ELSE tier[t] # "isin"

\* Every task called the cold feed before the index was loaded, one
\* construction ran and every task got its LEI from the index.
C1_Witness ==
    /\ getIndexCalls = 1
    /\ \A t \in Tasks : pc[t] = "done" /\ ~warm[t] /\ tier[t] = "isin"

\* C2: at every moment at most one call is inside the API section, and the
\* call inside it holds the gate from the name search to the parent lookup.
C2_GateSerialisesApi ==
    \A t \in Tasks :
        InApiSection(t) =>
            /\ api_semaphore = t
            /\ \A u \in Tasks : u # t => ~InApiSection(u)

\* One call is at its parent lookup while another waits for the gate.
C2_Witness ==
    \E t, u \in Tasks : pc[t] = "parents" /\ pc[u] = "gate_wait"

\* The index construction failed or produced an empty index.
IndexUnavailable == loaded /\ (isin_index.none \/ IsEmptyDict(isin_index))

\* C3: when the index construction fails or yields an empty index, every
\* resolution goes through the name-based path and ends in a record or a
\* LookupError, never in another error.
C3_BuildFailureFallsBack ==
    \A t \in Tasks :
        (IndexUnavailable /\ pc[t] = "done") =>
            /\ result[t].kind \in {"record", "LookupError"}
            /\ tier[t] # "isin"
            /\ cacheReads[t] > 0

\* C4: a call that arrives while another task holds the index lock waits,
\* starts no second construction once it has the lock, and looks its ISIN
\* up only after _loaded is set: nobody is behind _ensure_index_loaded
\* while a construction is in progress.
C4_WaitersSeeLoadedIndex ==
    /\ [](\A t \in Tasks :
            /\ pc[t] \in PastEnsure => loaded
            /\ lock = t => ~loaded /\ pc[t] \in {"metadata", "stream"}
            /\ (lock # 0 /\ lock # t) => pc[t] \in {"idle", "lock_wait"})
    /\ [][\A t \in Tasks :
            (pc[t] = "lock_wait" /\ pc'[t] # "lock_wait" /\ loaded) =>
                /\ pc'[t] = "lookup"
                /\ getIndexCalls' = getIndexCalls
                /\ isin_index' = isin_index]_vars

\* Two calls arrived before the index was loaded, the index was built by a
\* download, and both are behind _ensure_index_loaded after one construction.
C4_Witness ==
    \E t, u \in Tasks :
        /\ t # u
        /\ cache_key = NoneVal
        /\ ~warm[t] /\ ~warm[u]
        /\ pc[t] = "lookup" /\ pc[u] \in PastEnsure
        /\ getIndexCalls = 1

\* C5: when the loaded index contains the caller's ISIN, fetch_equity
\* returns the index's LEI with no name-cache read, no gate acquisition and
\* no network call; the name-based tiers are entered only on an ISIN miss.
C5_IsinHitSkipsNameTiers ==
    \A t \in Tasks :
        /\ (pc[t] = "done" /\ ContainsIsin(t)) =>
              /\ result[t] = Record(query[t], isin_index.map[query[t].isin])
              /\ cacheReads[t] = 0
              /\ gateAcq[t] = 0
              /\ apiCalls[t] = 0
        /\ (cacheReads[t] > 0 \/ gateAcq[t] > 0 \/ apiCalls[t] > 0
               \/ pc[t] = "gate_wait" \/ InApiSection(t)) => ~ContainsIsin(t)
        /\ warm[t] => pc[t] \notin {"lock_wait", "metadata", "stream"}

\* A call that found the index loaded got its LEI from the index.
C5_Witness ==
    \E t \in Tasks :
        /\ pc[t] = "done" /\ warm[t] /\ ContainsIsin(t)
        /\ result[t].lei = "LX"

\* C6: after an ISIN miss a name-cache hit makes no network call and takes
\* no gate: a stored LEI is returned, the stored sentinel raises
\* LookupError; the API search starts only with no cache entry.
C6_CacheHitNeverSearches ==
    \A t \in Tasks :
        /\ cached[t] = _NO_MATCH_SENTINEL =>
              /\ pc[t] = "done" /\ result[t].kind = "LookupError"
              /\ apiCalls[t] = 0 /\ gateAcq[t] = 0
        /\ cached[t] \notin {Unread, NoneVal, _NO_MATCH_SENTINEL} =>
              /\ pc[t] = "done" /\ result[t] = Record(query[t], cached[t])
              /\ apiCalls[t] = 0 /\ gateAcq[t] = 0
        /\ (pc[t] = "gate_wait" \/ InApiSection(t) \/ gateAcq[t] > 0
               \/ apiCalls[t] > 0) => cached[t] = NoneVal

\* A call read the sentinel from the cache and raised LookupError.
C6_Witness ==
    \E t \in Tasks :
        /\ cached[t] = _NO_MATCH_SENTINEL
        /\ pc[t] = "done" /\ result[t].kind = "LookupError"

\* C7: once an API search for name n has ended in FAILED, the negative
\* result is stored, and every later resolution of n on an ISIN miss raises
\* LookupError with no network call; a name with no entry goes to the API
\* search.
C7_NegativeResultSuppressesSearch ==
    /\ [](\A n \in apiFailed : name_cache[n] = _NO_MATCH_SENTINEL)
    /\ [][\A t \in Tasks :
            (pc[t] = "lookup" /\ pc'[t] # "lookup" /\ ~ContainsIsin(t)) =>
                /\ query[t].name \in apiFailed =>
                      /\ pc'[t] = "done"
                      /\ result'[t].kind = "LookupError"
                      /\ apiCalls'[t] = 0 /\ gateAcq'[t] = 0
                      /\ api_semaphore' = api_semaphore
                /\ name_cache[query[t].name] = NoneVal =>
                      pc'[t] = "gate_wait"]_vars

\* One call's API search for a name failed, and a later call for the same
\* name read the sentinel and raised LookupError without a request.
C7_Witness ==
    \E t, u \in Tasks :
        /\ t # u /\ query[t].name = query[u].name
        /\ pc[u] = "done" /\ result[u].kind = "LookupError"
        /\ apiCalls[u] > 0
        /\ pc[t] = "done" /\ result[t].kind = "LookupError"
        /\ cached[t] = _NO_MATCH_SENTINEL /\ apiCalls[t] = 0

\* C8: no fetch_equity call that reached the API search ends, by return or
\* by raise, leaving its name without a cache entry.
C8_ApiOutcomeCached ==
    \A t \in Tasks :
        (pc[t] = "done" /\ gateAcq[t] > 0) =>
            name_cache[query[t].name] # NoneVal

\* The LEIs of a list of (legal_name, lei) pairs.
LeisOf(list) == { list[k][2] : k \in 1..Len(list) }

\* C9: in the API path, when the parent lookup returns a parent the LEI
\* returned and cached is a parent's LEI and not the candidate's, however
\* poorly the parent's name matches; with no parent it is the candidate's.
C9_ParentPreferred ==
    /\ [](\A t \in Tasks :
            (pc[t] = "exit_gate" /\ best_lei[t] # NoneVal) =>
                IF parents[t] # << >>
                THEN lei[t] \in LeisOf(parents[t]) /\ lei[t] # best_lei[t]
                ELSE lei[t] = best_lei[t])
    /\ [][\A t \in Tasks :
            (pc[t] = "exit_gate" /\ pc'[t] = "done" /\ lei[t] # NoneVal) =>
                /\ result'[t] = Record(query[t], lei[t])
                /\ name_cache'[query[t].name] = lei[t]]_vars

\* The parent lookup returned only parents whose names score below the
\* cutoff, and the call is about to return a parent's LEI.
C9_Witness ==
    \E t \in Tasks :
        /\ pc[t] = "exit_gate" /\ parents[t] # << >>
        /\ \A k \in 1..Len(parents[t]) :
              WRatio(query[t].name, parents[t][k][1]) < ScoreCutoff
        /\ lei[t] \in LeisOf(parents[t])

\* C10: every fetch_equity call ends either with a record that carries the
\* caller's name, symbol and isin and an LEI, or with LookupError; no other
\* exception surfaces.
C10_RecordOrLookupError ==
    \A t \in Tasks :
        pc[t] = "done" =>
            \/ result[t].kind = "LookupError"
            \/ /\ result[t].kind = "record"
               /\ result[t].name = query[t].name
               /\ result[t].symbol = query[t].symbol
               /\ result[t].isin = query[t].isin
               /\ result[t].lei \notin {NoneVal, _NO_MATCH_SENTINEL}

\* What a finished call's outcome is as a cache value: the LEI of the
\* record, the sentinel for LookupError.
OutcomeValue(res) ==
    IF res.kind = "record" THEN res.lei ELSE _NO_MATCH_SENTINEL

\* C11: a call that ends in LookupError does not hold the gate afterwards;
\* behind the index loading no step of a call changes the index, the
\* loaded flag, another name's cache entry or another call's position and
\* outcome, so other equities resolve as if the failed call had not run.
C11_FailureIsolated ==
    /\ [](\A t \in Tasks :
            (pc[t] = "done" /\ result[t].kind = "LookupError") =>
                api_semaphore # t)
    /\ [][\A t \in Tasks :
            (pc[t] \in PastEnsure /\ pc'[t] # pc[t]) =>
                /\ isin_index' = isin_index
                /\ loaded' = loaded
                /\ \A n \in Names \ {query[t].name} :
                      name_cache'[n] = name_cache[n]
                /\ \A u \in Tasks \ {t} :
                      pc'[u] = pc[u] /\ result'[u] = result[u]
                /\ (pc'[t] = "done" /\ result'[t].kind = "LookupError") =>
                      api_semaphore' # t]_vars

\* One call failed through the API search, the gate is free, and a call
\* for another name returned a record.
C11_Witness ==
    \E t, u \in Tasks :
        /\ query[t].name # query[u].name
        /\ pc[t] = "done" /\ result[t].kind = "LookupError"
        /\ apiCalls[t] > 0
        /\ pc[u] = "done" /\ result[u].kind = "record"
        /\ api_semaphore = 0

\* C12: concurrent resolutions of one uncached name may each run the API
\* search; a name's cache entry changes only when an API search for that
\* name completes, to the value that search produced, and it equals the
\* value of the search that completed last.
C12_LastWriteWins ==
    /\ [](\A n \in Names :
            lastApi[n] # 0 =>
                name_cache[n] = OutcomeValue(result[lastApi[n]]))
    /\ [][\A n \in Names :
            name_cache'[n] # name_cache[n] =>
                \E t \in Tasks :
                    /\ pc[t] = "exit_gate" /\ pc'[t] = "done"
                    /\ query[t].name = n
                    /\ apiCalls[t] > 0
                    /\ name_cache'[n] = OutcomeValue(result'[t])]_vars

\* Two calls for one name both found no cache entry and both ran the API
\* search, with different outcomes; the entry is that of the later one.
C12_Witness ==
    \E t, u \in Tasks :
        /\ t # u /\ query[t].name = query[u].name
        /\ pc[t] = "done" /\ pc[u] = "done"
        /\ cached[t] = NoneVal /\ cached[u] = NoneVal
        /\ apiCalls[t] > 0 /\ apiCalls[u] > 0
        /\ OutcomeValue(result[t]) # OutcomeValue(result[u])
        /\ lastApi[query[t].name] = u
        /\ name_cache[query[t].name] = OutcomeValue(result[u])

\* ------------------------------------------------------- backoff_delays
\* Delays are whole numbers of a time unit, jitter a whole number of
\* percent; the draws below keep every product a whole number.
MaxAttempts == 3
Bases == {0, 1, 2, 3}
Caps == {0, 2, 4}
JitterPercents == {0, 100}

\* 2 * random.random() - 1: the two ends and the middle of its range.
JitterDraws == {-1, 0, 1}

Min(a, b) == IF a <= b THEN a ELSE b
Max(a, b) == IF a >= b THEN a ELSE b

\* delta = delay * jitter * (2 * random.random() - 1)
Delta(delay, jitter, u) == (delay * jitter * u) \div 100

\* The value yielded without the clamp to [0, cap].
YieldValue_Unclamped(delay, jitter, u, cap) == delay + Delta(delay, jitter, u)

\* yield max(0.0, min(delay + delta, cap))
YieldValue(delay, jitter, u, cap) ==
    Max(0, Min(delay + Delta(delay, jitter, u), cap))

\* delay = min(delay * 2, cap)
NextDelay(delay, cap) == Min(delay * 2, cap)

\* backoff_delays(base=, cap=, jitter=, attempts=) is called: a new
\* generator whose delay is base.
BackoffCall ==
    /\ gen.phase \in {"none", "exhausted"}
    /\ \E base \in Bases, cap \in Caps, jitter \in JitterPercents,
          attempts \in 0..MaxAttempts :
          gen' = [phase |-> "running", base |-> base, cap |-> cap,
                  jitter |-> jitter, attempts |-> attempts,
                  delay |-> base, yielded |-> << >>]
    /\ UNCHANGED << feedSpecVars, search, rank, csv, kw, strip, sel >>

\* next() on the generator: one pass of the loop body.
BackoffYield ==
    /\ gen.phase = "running"
    /\ Len(gen.yielded) < gen.attempts
    /\ \E u \in JitterDraws :
          gen' = [gen EXCEPT
                    !.yielded = Append(@, YieldValue(gen.delay, gen.jitter,
                                                     u, gen.cap)),
                    !.delay = NextDelay(gen.delay, gen.cap)]
    /\ UNCHANGED << feedSpecVars, search, rank, csv, kw, strip, sel >>

\* next() after range(attempts) is used up: StopIteration.
BackoffStop ==
    /\ gen.phase = "running"
    /\ Len(gen.yielded) = gen.attempts
    /\ gen' = [gen EXCEPT !.phase = "exhausted"]
    /\ UNCHANGED << feedSpecVars, search, rank, csv, kw, strip, sel >>

InitBackoff ==
    /\ FeedUnused
    /\ gen = [phase |-> "none"]
    /\ search = Idle /\ rank = Idle /\ csv = Idle /\ kw = Idle
    /\ strip = Idle /\ sel = Idle

NextBackoff == BackoffCall \/ BackoffYield \/ BackoffStop

SpecBackoff == InitBackoff /\ [][NextBackoff]_vars

\* A generator has been created.
GenStarted == gen.phase \in {"running", "exhausted"}

DefaultBase == 10
DefaultCap == 640
DefaultJitter == 10

max_backoff_attempts == 5

\* _RETRYABLE_STATUS_CODES
_RETRYABLE_STATUS_CODES == {429, 502, 503, 504}

\* The status codes an endpoint answers with.
StatusCodes == {200, 404, 500} \cup _RETRYABLE_STATUS_CODES

\* What client.get ends in: an httpx.HTTPError or a response.
Responses ==
    {[error |-> TRUE, status |-> 0]}
        \cup {[error |-> FALSE, status |-> c] : c \in StatusCodes}
NoResponse == [error |-> FALSE, status |-> 0]

\* Retrying on every error status.
IsRetryable_AnyErrorStatus(status) == status >= 400

\* response.status_code in _RETRYABLE_STATUS_CODES
IsRetryable(status) == status \in _RETRYABLE_STATUS_CODES

\* An id that is a JSON number, and an id that is a JSON object: both are
\* truthy, neither is a str, the second is not hashable.
NumberId == "#123"
ObjectId == "#{}"
IsStr(id) == id \notin {NumberId, ObjectId}
IsHashable(id) == id # ObjectId

\* What a parser makes of the body of a response: it raises (no JSON, or
\* not the expected shape), or it returns the pairs of the items that pass
\* its field checks, which test the fields for truth only.
AutocompletePayloads ==
    {[raises |-> TRUE, items |-> << >>]}
        \cup {[raises |-> FALSE, items |-> c] : c \in CandidateLists}
        \cup {[raises |-> FALSE, items |-> << <<"la", NumberId>> >>]}
ActivePayloads ==
    {[raises |-> TRUE, items |-> << >>],
     [raises |-> FALSE, items |-> << >>],
     [raises |-> FALSE, items |-> << <<"", "L1">> >>],
     [raises |-> FALSE, items |-> << <<"", "L1">>, <<"", "L2">> >>],
     [raises |-> FALSE, items |-> << <<"", ObjectId>> >>]}
PayloadsOf(call) ==
    IF call = "autocomplete" THEN AutocompletePayloads ELSE ActivePayloads

\* response.raise_for_status() raises unless the status is a success.
RaisesForStatus(status) == status \notin 200..299

\* _safe_parse without raise_for_status.
_safe_parse_NoStatusCheck(response, payload) ==
    IF payload.raises THEN << >> ELSE payload.items

\* _safe_parse(response, parser)
_safe_parse(response, payload) ==
    IF RaisesForStatus(response.status) \/ payload.raises
    THEN << >>
    ELSE payload.items

\* The delay backoff_delays() holds before its k-th value, k >= 1.
RECURSIVE DelayAt(_)
DelayAt(k) ==
    IF k = 1 THEN DefaultBase ELSE NextDelay(DelayAt(k - 1), DefaultCap)

\* delays = [0, *backoff_delays(attempts=max_backoff_attempts)]: the values
\* the entry of index attempt can take.
DelaysAt(attempt) ==
    IF attempt = 0 THEN {0}
    ELSE { YieldValue(DelayAt(attempt), DefaultJitter, u, DefaultCap) :
              u \in JitterDraws }
NumDelays == 1 + max_backoff_attempts

NoFetch == [call |-> "none", requests |-> 0, sleeps |-> 0,
            last |-> NoResponse, malformed |-> FALSE, result |-> << >>]

\* Nothing saved to the name cache.
NothingSaved == [key |-> NoneVal, value |-> NoneVal]

\* The start of a _fetch_with_retry call.
StartFetch(call) ==
    [phase |-> "fetch", call |-> call, attempt |-> 0, requests |-> 0,
     sleeps |-> 0, last |-> NoResponse]

\* search_by_name(name, client) is called.
SearchCall ==
    /\ search.phase = "none"
    /\ \E name \in Names :
          search' = StartFetch("autocomplete")
                       @@ [name |-> name, candidates |-> << >>,
                           finished |-> NoFetch, out |-> << >>,
                           error |-> NoneVal, saved |-> NothingSaved]
    /\ UNCHANGED << feedSpecVars, gen, rank, csv, kw, strip, sel >>

\* search_by_name after a _fetch_with_retry call returned.  After the
\* autocomplete call: _filter_active returns [] for no candidates, joins
\* the LEIs (a TypeError unless all are str) and starts the active-status
\* call.  After the active-status call: the frozenset of the LEIs (a
\* TypeError unless all are hashable) and the filtered candidates.
AfterFetch(st, parsed) ==
    IF st.call = "autocomplete"
    THEN IF parsed = << >>
         THEN [st EXCEPT !.phase = "returned", !.out = << >>]
         ELSE IF \E k \in 1..Len(parsed) : ~IsStr(parsed[k][2])
         THEN [st EXCEPT !.phase = "raised", !.error = "TypeError"]
         ELSE StartFetch("active") @@ [st EXCEPT !.candidates = parsed]
    ELSE IF \E k \in 1..Len(parsed) : ~IsHashable(parsed[k][2])
         THEN [st EXCEPT !.phase = "raised", !.error = "TypeError"]
         ELSE [st EXCEPT !.phase = "returned",
                         !.out = FilterActive(st.candidates,
                                              LeisOf(parsed))]

\* _fetch_with_retry returns parsed after the response last; malformed
\* tells that the parser raised on the body of that response.
FetchReturn(st, last, malformed, parsed) ==
    LET fin == [call |-> st.call, requests |-> st.requests,
                sleeps |-> st.sleeps, last |-> last,
                malformed |-> malformed, result |-> parsed]
    IN AfterFetch([st EXCEPT !.finished = fin], parsed)

\* One pass of the loop of _fetch_with_retry: the sleep when delay > 0, the
\* request, and what follows its outcome.
Attempt ==
    /\ search.phase = "fetch"
    /\ \E delay \in DelaysAt(search.attempt), r \in Responses,
          payload \in PayloadsOf(search.call) :
          LET st == [search EXCEPT
                       !.requests = @ + 1,
                       !.sleeps = IF delay > 0 THEN @ + 1 ELSE @]
              malformed == ~RaisesForStatus(r.status) /\ payload.raises
          IN search' =
                IF r.error
                THEN FetchReturn(st, r, FALSE, << >>)
                ELSE IF ~IsRetryable(r.status)
                THEN FetchReturn(st, r, malformed, _safe_parse(r, payload))
                ELSE IF search.attempt + 1 < NumDelays
                THEN [st EXCEPT !.attempt = @ + 1, !.last = r]
                ELSE FetchReturn(st, r, malformed, _safe_parse(r, payload))
    /\ UNCHANGED << feedSpecVars, gen, rank, csv, kw, strip, sel >>

InitSearch ==
    /\ FeedUnused
    /\ search = [phase |-> "none"]
    /\ gen = Idle /\ rank = Idle /\ csv = Idle /\ kw = Idle
    /\ strip = Idle /\ sel = Idle

\* _resolve_lei_from_api after search_by_name returned, and the
\* _cache_name_result that follows it in _search_gleif_api: the ranking,
\* for a ranked candidate the parents fetch_parents returns, and the entry
\* saved under the name.
CacheNameResult ==
    /\ search.phase = "returned"
    /\ \E p \in ParentLists :
          LET ranked == rank_candidates(search.name, search.out)
              lei_ == IF ranked = << >> THEN NoneVal
                      ELSE TryParentTraversal(search.name, ranked[1][2], p)
          IN search' = [search EXCEPT
                          !.phase = "cached",
                          !.saved = [key |-> NameCacheKey(search.name),
                                     value |-> CachedValueFor(lei_)]]
    /\ UNCHANGED << feedSpecVars, gen, rank, csv, kw, strip, sel >>

NextSearch == SearchCall \/ Attempt \/ CacheNameResult

SpecSearch == InitSearch /\ [][NextSearch]_vars

\* A search_by_name call has started.
SearchStarted == search.phase \in {"fetch", "returned", "raised", "cached"}

\* C13: _fetch_with_retry issues a further request only after a response
\* with status 429, 502, 503 or 504; a call that ended before the last
\* attempt ended on a transport error or on another status, and a
\* transport error makes it return the empty list.
C13_RetryOnlyOnTransientStatus ==
    SearchStarted =>
        /\ (search.phase = "fetch" /\ search.requests > 0) =>
              /\ ~search.last.error
              /\ search.last.status \in {429, 502, 503, 504}
        /\ search.finished.call # "none" =>
              /\ search.finished.last.error => search.finished.result = << >>
              /\ search.finished.requests < 6 =>
                    \/ search.finished.last.error
                    \/ search.finished.last.status \notin {429, 502, 503, 504}

\* A call was answered 429 and then 200 with candidates: two requests and
\* the second answer's candidates returned.
C13_Witness ==
    /\ SearchStarted
    /\ search.finished.call = "autocomplete"
    /\ search.finished.requests = 2
    /\ search.finished.last.status = 200
    /\ search.finished.result # << >>

\* C14: against an endpoint that always answers with a retryable status
\* _fetch_with_retry ends after one attempt with no delay before it and 5
\* delayed retries, returning the empty list; it never makes more requests.
C14_RetryBudgetThenEmpty ==
    SearchStarted =>
        /\ search.requests <= 6
        /\ search.phase = "fetch" =>
              search.sleeps = Max(search.requests - 1, 0)
        /\ (search.finished.call # "none" /\ ~search.finished.last.error
               /\ search.finished.last.status \in {429, 502, 503, 504}) =>
              /\ search.finished.requests = 6
              /\ search.finished.sleeps = 5
              /\ search.finished.result = << >>

\* A call ended on a retryable status after 6 requests and 5 sleeps.
C14_Witness ==
    /\ SearchStarted
    /\ search.finished.call # "none"
    /\ search.finished.last.status = 503
    /\ search.finished.requests = 6 /\ search.finished.sleeps = 5
    /\ search.finished.result = << >>

\* C15: search_by_name never raises: a transport error, an HTTP error
\* status or a malformed payload at either call makes it return the empty
\* list.
C15_SearchNeverRaises ==
    SearchStarted =>
        /\ search.phase # "raised"
        /\ (search.phase = "returned"
               /\ \/ search.finished.last.error
                  \/ RaisesForStatus(search.finished.last.status)) =>
              search.out = << >>

\* The call of _fetch_with_retry that search_by_name ended with failed: a
\* transport error, an error status (a retryable one once the retries are
\* used up) or a body the parser raised on.
SearchFailed ==
    \/ search.finished.last.error
    \/ search.finished.last.status \notin 200..299
    \/ search.finished.malformed

\* C25: the no-match sentinel is saved only for a name whose search was
\* completed and left no qualifying candidate; after a search whose
\* autocomplete or active-status call failed no sentinel is saved, so that
\* a later resolution of the name queries the registry again.
C25_NoSentinelAfterFailedSearch ==
    (search.phase = "cached" /\ search.saved.value = _NO_MATCH_SENTINEL) =>
        ~SearchFailed

\* C27: search_by_name returns the candidates of the autocomplete answer
\* whose LEI is in the active set, all of them and in the order of the
\* answer; when the autocomplete answer has no candidate it returns the
\* empty list and the active-status query is not made.
C27_ActiveCandidatesInOrder ==
    /\ (search.phase = "fetch" /\ search.call = "active") =>
          search.candidates # << >>
    /\ search.phase \in {"returned", "cached"} =>
          /\ search.finished.call = "autocomplete" =>
                /\ search.finished.result = << >>
                /\ search.out = << >>
          /\ search.finished.call = "active" =>
                /\ search.candidates # << >>
                /\ search.out =
                      SelectSeq(search.candidates,
                                LAMBDA c :
                                    \E k \in 1..Len(search.finished.result) :
                                        search.finished.result[k][2] = c[2])

\* Of two candidates the active set held the second only, and the call
\* returned that one.
C27_Witness ==
    /\ search.phase = "returned"
    /\ search.finished.call = "active"
    /\ Len(search.candidates) = 2
    /\ search.out = << search.candidates[2] >>

\* ------------------------------------------------------- rank_candidates
\* The candidates handed to rank_candidates: two of them share a legal
\* name, so that equal scores occur for either equity name.
RankEntities ==
    { <<"la", "L1">>, <<"lb", "L2">>, <<"lc", "P1">>, <<"la", "L3">> }
RankInputs == ListsOf(RankEntities)

\* rank_candidates(equity_name, candidates) returns.
RankReturn ==
    /\ rank.phase = "called"
    /\ rank' = [rank EXCEPT
                  !.phase = "returned",
                  !.out = rank_candidates(rank.equity_name, rank.candidates)]
    /\ UNCHANGED << feedSpecVars, search, gen, csv, kw, strip, sel >>

\* rank_candidates is called with a name and a list of candidates.
InitRank ==
    /\ FeedUnused
    /\ \E n \in Names, c \in RankInputs :
          rank = [phase |-> "called", equity_name |-> n, candidates |-> c,
                  out |-> << >>]
    /\ search = Idle /\ gen = Idle /\ csv = Idle /\ kw = Idle
    /\ strip = Idle /\ sel = Idle

NextRank == RankReturn

SpecRank == InitRank /\ [][NextRank]_vars

\* The similarity score of a candidate for the name rank_candidates got.
RankScore(e) == WRatio(rank.equity_name, e[1])

\* The position of a candidate in the input list.
RankPos(e) ==
    CHOOSE k \in 1..Len(rank.candidates) : rank.candidates[k] = e

\* C16: rank_candidates returns only candidates that score strictly above
\* 70, and every candidate that scores strictly above 70.
C16_StrictlyAboveCutoff ==
    rank.phase = "returned" =>
        /\ \A k \in 1..Len(rank.out) : RankScore(rank.out[k]) > 70
        /\ \A k \in 1..Len(rank.candidates) :
              RankScore(rank.candidates[k]) > 70 =>
                  \E j \in 1..Len(rank.out) :
                      rank.out[j] = rank.candidates[k]

\* C17: the list rank_candidates returns is in order of non-increasing
\* score, candidates of equal score keep their input order, and element 0
\* is the first input candidate among those of maximal score.
C17_SortedStable ==
    rank.phase = "returned" =>
        /\ \A i, j \in 1..Len(rank.out) :
              i < j =>
                  /\ RankScore(rank.out[i]) >= RankScore(rank.out[j])
                  /\ RankScore(rank.out[i]) = RankScore(rank.out[j]) =>
                        RankPos(rank.out[i]) < RankPos(rank.out[j])
        /\ rank.out # << >> =>
              \A k \in 1..Len(rank.candidates) :
                  \/ RankScore(rank.candidates[k]) < RankScore(rank.out[1])
                  \/ /\ RankScore(rank.candidates[k]) = RankScore(rank.out[1])
                     /\ RankPos(rank.out[1]) <= k

\* Three candidates were returned, the first two with equal scores above
\* the third's and in their input order.
C17_Witness ==
    /\ rank.phase = "returned"
    /\ Len(rank.out) = 3
    /\ RankScore(rank.out[1]) = RankScore(rank.out[2])
    /\ RankScore(rank.out[2]) > RankScore(rank.out[3])
    /\ RankPos(rank.out[1]) < RankPos(rank.out[2])

\* ------------------------------------------------------------ _parse_csv
\* A str is a sequence of characters.  A field of a row of csv.DictReader
\* is a str, or None when the line has fewer fields than the header (the
\* reader's restval); the header is LEI, ISIN, so it is the ISIN that a
\* short line lacks.
MaxRows == 2

Str(chars) == [missing |-> FALSE, chars |-> chars]
MissingField == [missing |-> TRUE, chars |-> << >>]

RawIsins ==
    {MissingField, Str(<< >>), Str(<<" ">>), Str(<<"a">>),
     Str(<<" ", "a", " ">>), Str(<<"A">>), Str(<<"b">>)}
RawLeis == {Str(<< >>), Str(<<" ">>), Str(<<" ", "x">>), Str(<<"y">>)}
RawRows == {[ISIN |-> i, LEI |-> l] : i \in RawIsins, l \in RawLeis}
CsvInputs == UNION {[1..k -> RawRows] : k \in 0..MaxRows}

\* str.upper() on one character.
UpperChar(c) ==
    CASE c = "a" -> "A"
      [] c = "b" -> "B"
      [] c = "c" -> "C"
      [] c = "d" -> "D"
      [] c = "e" -> "E"
      [] c = "i" -> "I"
      [] c = "l" -> "L"
      [] c = "m" -> "M"
      [] c = "n" -> "N"
      [] c = "o" -> "O"
      [] c = "p" -> "P"
      [] c = "t" -> "T"
      [] c = "u" -> "U"
      [] c = "x" -> "X"
      [] c = "y" -> "Y"
      [] OTHER -> c

\* str.upper()
Upper(chars) == [k \in 1..Len(chars) |-> UpperChar(chars[k])]

IsSpace(c) == c = " "

RECURSIVE StripLeft(_)
StripLeft(chars) ==
    IF chars # << >> /\ IsSpace(Head(chars))
    THEN StripLeft(Tail(chars))
    ELSE chars

RECURSIVE StripRight(_)
StripRight(chars) ==
    IF chars # << >> /\ IsSpace(chars[Len(chars)])
    THEN StripRight(SubSeq(chars, 1, Len(chars) - 1))
    ELSE chars

\* str.strip()
Strip(chars) == StripRight(StripLeft(chars))

\* row.get(...).strip().upper(), for a field that is a str.
NormaliseField(field) == Upper(Strip(field.chars))

\* index[isin] = lei
DictSet(index, key, value) ==
    [k \in DOMAIN index \cup {key} |-> IF k = key THEN value ELSE index[k]]

EmptyDict == [k \in {} |-> << >>]

\* The loop of _parse_csv over the rows that remain.  None has no strip():
\* a row whose ISIN is None raises AttributeError.
RECURSIVE ParseRows(_, _)
ParseRows(rows, index) ==
    IF rows = << >> THEN [raised |-> FALSE, index |-> index]
    ELSE LET row == Head(rows)
         IN IF row.ISIN.missing \/ row.LEI.missing
            THEN [raised |-> TRUE, index |-> index]
            ELSE LET isin == NormaliseField(row.ISIN)
                     lei_ == NormaliseField(row.LEI)
                 IN IF isin # << >> /\ lei_ # << >>
                    THEN ParseRows(Tail(rows), DictSet(index, isin, lei_))
                    ELSE ParseRows(Tail(rows), index)

\* _parse_csv(csv_file) returns or raises.
ParseCsv ==
    /\ csv.phase = "called"
    /\ LET r == ParseRows(csv.rows, EmptyDict)
       IN csv' = IF r.raised
                 THEN [csv EXCEPT !.phase = "raised"]
                 ELSE [csv EXCEPT !.phase = "returned", !.out = r.index]
    /\ UNCHANGED << feedSpecVars, search, gen, rank, kw, strip, sel >>

\* _parse_csv is called on a file with the given rows.
InitCsv ==
    /\ FeedUnused
    /\ \E rows \in CsvInputs :
          csv = [phase |-> "called", rows |-> rows, out |-> EmptyDict]
    /\ search = Idle /\ gen = Idle /\ rank = Idle /\ kw = Idle
    /\ strip = Idle /\ sel = Idle

NextCsv == ParseCsv

SpecCsv == InitCsv /\ [][NextCsv]_vars

\* The trimmed, upper-cased text of a field; empty for a field that is not
\* there.
Normalised(field) ==
    IF field.missing THEN << >> ELSE Upper(Strip(field.chars))

\* The rows of which both normalised fields are non-empty.
ValidRows(rows) ==
    { k \in 1..Len(rows) :
        Normalised(rows[k].ISIN) # << >> /\ Normalised(rows[k].LEI) # << >> }

\* The reference map: each ISIN of a valid row to the LEI of the last valid
\* row that carries it.
ReferenceIndex(rows) ==
    LET keys == { Normalised(rows[k].ISIN) : k \in ValidRows(rows) }
        last(key) ==
            CHOOSE k \in ValidRows(rows) :
                /\ Normalised(rows[k].ISIN) = key
                /\ \A m \in ValidRows(rows) :
                      Normalised(rows[m].ISIN) = key => m <= k
    IN [key \in keys |-> Normalised(rows[last(key)].LEI)]

\* A str that is non-empty, trimmed and upper-case.
IsClean(chars) ==
    chars # << >> /\ Strip(chars) = chars /\ Upper(chars) = chars

\* C19: for every sequence of CSV rows _parse_csv returns the reference
\* map (rows trimmed and upper-cased, rows with an empty field dropped, the
\* last row of an ISIN kept), whose keys and values are non-empty, trimmed
\* and upper-case.
C19_IndexIsReferenceMap ==
    csv.phase # "called" =>
        /\ csv.phase = "returned"
        /\ csv.out = ReferenceIndex(csv.rows)
        /\ \A key \in DOMAIN csv.out : IsClean(key) /\ IsClean(csv.out[key])

\* --------------------------------------------- strip_corporate_suffix
\* A name is a string, written as the sequence of its characters.
MaxWords == 4

\* The tokens names are made of: a plain word, suffixes in lower case,
\* dotted and with trailing punctuation, the words of the multi-word
\* suffix, a token of punctuation only, and the empty token, which puts
\* leading, trailing and doubled spaces into a name.
Vocabulary ==
    { << "A", "c" >>,
      << "p", "l", "c", "," >>,
      << "P", ".", "L", ".", "C", "." >>,
      << "," >>,
      << "P", "u", "b", "l", "i", "c" >>,
      << "L", "i", "m", "i", "t", "e", "d" >>,
      << "C", "o", "m", "p", "a", "n", "y", "." >>,
      << >> }

RECURSIVE JoinWords(_)
\* " ".join(words)
JoinWords(words) ==
    IF words = << >> THEN << >>
    ELSE IF Len(words) = 1 THEN words[1]
    ELSE words[1] \o << " " >> \o JoinWords(Tail(words))

StripInputs ==
    { JoinWords(w) : w \in UNION { [1..n -> Vocabulary] : n \in 0..MaxWords } }

_SINGLE_WORD_SUFFIXES ==
    { << "A", "B" >>,
      << "A", "G" >>,
      << "A", "S", "A" >>,
      << "B", "V" >>,
      << "C", "O" >>,
      << "C", "O", "R", "P" >>,
      << "C", "O", "R", "P", "O", "R", "A", "T", "I", "O", "N" >>,
      << "G", "M", "B", "H" >>,
      << "I", "N", "C" >>,
      << "I", "N", "C", "O", "R", "P", "O", "R", "A", "T", "E", "D" >>,
      << "K", "G" >>,
      << "K", "G", "A", "A" >>,
      << "L", "I", "M", "I", "T", "E", "D" >>,
      << "L", "L", "C" >>,
      << "L", "P" >>,
      << "L", "T", "D" >>,
      << "N", "V" >>,
      << "O", "Y", "J" >>,
      << "P", "L", "C" >>,
      << "S", "A" >>,
      << "S", "A", "R", "L" >>,
      << "S", "A", "S" >>,
      << "S", "E" >>,
      << "S", "P", "A" >> }

_MULTI_WORD_SUFFIXES ==
    << << << "P", "U", "B", "L", "I", "C" >>,
          << "L", "I", "M", "I", "T", "E", "D" >>,
          << "C", "O", "M", "P", "A", "N", "Y" >> >> >>

RECURSIVE SplitLoop(_, _, _)
SplitLoop(chars, word, words) ==
    LET closed == IF word = << >> THEN words ELSE Append(words, word)
    IN  IF chars = << >> THEN closed
        ELSE IF IsSpace(Head(chars))
             THEN SplitLoop(Tail(chars), << >>, closed)
             ELSE SplitLoop(Tail(chars), Append(word, Head(chars)), words)

\* str.split(): the maximal runs of characters that are not whitespace.
SplitWords(chars) == SplitLoop(chars, << >>, << >>)

RECURSIVE LStripChars(_, _)
LStripChars(chars, set) ==
    IF chars # << >> /\ Head(chars) \in set
    THEN LStripChars(Tail(chars), set)
    ELSE chars

RECURSIVE RStripChars(_, _)
\* str.rstrip(set)
RStripChars(chars, set) ==
    IF chars # << >> /\ chars[Len(chars)] \in set
    THEN RStripChars(SubSeq(chars, 1, Len(chars) - 1), set)
    ELSE chars

\* str.strip(set)
StripChars(chars, set) == RStripChars(LStripChars(chars, set), set)

\* str.replace(c, "")
RemoveChar(chars, c) == SelectSeq(chars, LAMBDA x : x # c)

\* The value of a helper that matched no suffix (None), and of one that
\* returns the string chars.
NotStripped == [stripped |-> FALSE]
Stripped(chars) == [stripped |-> TRUE, chars |-> chars]

\* words[:-n], joined and with trailing spaces, commas and dots removed
RemainderOf(words, n) ==
    RStripChars(JoinWords(SubSeq(words, 1, Len(words) - n)), {" ", ",", "."})

RECURSIVE MultiWordLoop(_, _)
MultiWordLoop(words, k) ==
    IF k > Len(_MULTI_WORD_SUFFIXES) THEN NotStripped
    ELSE LET suffix_words == _MULTI_WORD_SUFFIXES[k]
             n == Len(suffix_words)
             tail == [j \in 1..n |->
                         StripChars(Upper(words[Len(words) - n + j]),
                                    {".", ","})]
         IN  IF Len(words) <= n THEN MultiWordLoop(words, k + 1)
             ELSE IF tail = suffix_words THEN Stripped(RemainderOf(words, n))
             ELSE MultiWordLoop(words, k + 1)

_try_strip_multi_word(words) == MultiWordLoop(words, 1)

_try_strip_single_word(words) ==
    IF Len(words) <= 1 THEN NotStripped
    ELSE LET normalised ==
                 RStripChars(RemoveChar(Upper(words[Len(words)]), "."), {","})
         IN  IF normalised \notin _SINGLE_WORD_SUFFIXES THEN NotStripped
             ELSE Stripped(RemainderOf(words, 1))

strip_corporate_suffix(name) ==
    LET words == SplitWords(name)
        multi == _try_strip_multi_word(words)
        single == _try_strip_single_word(words)
    IN  IF multi.stripped THEN multi.chars
        ELSE IF single.stripped THEN single.chars
        ELSE name

\* One call of strip_corporate_suffix returns.
StripReturn ==
    /\ strip.phase = "called"
    /\ strip' = [phase |-> "returned", name |-> strip.name,
                 out |-> strip_corporate_suffix(strip.name)]
    /\ UNCHANGED << feedSpecVars, search, gen, rank, csv, kw, sel >>

InitStrip ==
    /\ FeedUnused
    /\ search = Idle /\ gen = Idle /\ rank = Idle /\ csv = Idle
    /\ kw = Idle /\ sel = Idle
    /\ \E name \in StripInputs : strip = [phase |-> "called", name |-> name]

NextStrip == StripReturn

SpecStrip == InitStrip /\ [][NextStrip]_vars

\* The last word of the name is a legal-form suffix, alone or as the end of
\* the multi-word suffix, and is not the whole name.
HasSuffix(name) ==
    LET words == SplitWords(name)
    IN  \/ _try_strip_multi_word(words).stripped
        \/ _try_strip_single_word(words).stripped

\* C23: strip_corporate_suffix returns the name unchanged when no suffix
\* matches, never returns the empty string for a name that is not empty
\* (it returns the original name where removing the suffix would leave
\* nothing), and applied again to a name with no suffix gives the same.
C23_NeverEmptiesAName ==
    strip.phase = "returned" =>
        /\ ~HasSuffix(strip.name) =>
              /\ strip.out = strip.name
              /\ strip_corporate_suffix(strip.out) = strip.out
        /\ strip.name # << >> => strip.out # << >>

\* -------------------------------------------------- select_best_parent
\* select_best_parent(equity_name, parents) returns.
SelectReturn ==
    /\ sel.phase = "called"
    /\ sel' = [sel EXCEPT
                 !.phase = "returned",
                 !.out = select_best_parent(sel.equity_name, sel.parents)]
    /\ UNCHANGED << feedSpecVars, search, gen, rank, csv, kw, strip >>

\* select_best_parent is called with a name and a list of parents.
InitSelect ==
    /\ FeedUnused
    /\ \E n \in Names, p \in RankInputs :
          sel = [phase |-> "called", equity_name |-> n, parents |-> p,
                 out |-> NoneVal]
    /\ search = Idle /\ gen = Idle /\ rank = Idle /\ csv = Idle
    /\ kw = Idle /\ strip = Idle

NextSelect == SelectReturn

SpecSelect == InitSelect /\ [][NextSelect]_vars

\* fuzz.WRatio of the k-th parent of the call against the call's name.
ParentScore(k) == WRatio(sel.equity_name, sel.parents[k][1])

\* C24: select_best_parent returns None exactly when the list of parents is
\* empty; otherwise it returns the LEI of one of the parents given, the one
\* whose score is maximal and, among those of maximal score, the first in
\* the order of the list.
C24_FirstOfMaximalScore ==
    sel.phase = "returned" =>
        /\ sel.out = NoneVal <=> sel.parents = << >>
        /\ sel.parents # << >> =>
              \E k \in 1..Len(sel.parents) :
                  /\ sel.out = sel.parents[k][2]
                  /\ \A j \in 1..Len(sel.parents) :
                        /\ ParentScore(j) <= ParentScore(k)
                        /\ j < k => ParentScore(j) < ParentScore(k)

\* A call returned the earlier of two parents of maximal score, which is
\* not the first of the list.
C24_Witness ==
    /\ sel.phase = "returned"
    /\ \E k, m \in 1..Len(sel.parents) :
          /\ 1 < k /\ k < m
          /\ sel.out = sel.parents[k][2]
          /\ ParentScore(k) = ParentScore(m)
          /\ ParentScore(1) < ParentScore(k)

\* ------------------------------------------- fetch_equity and **kwargs
\* The extra keyword arguments of a call: none, one the feed knows nothing
\* of, and one named like a field of the returned dict.
ExtraKwargs == { {}, {<<"exchange", "XNAS">>}, {<<"lei", "ZZ">>} }

\* fetch_equity(symbol=, name=, isin=, **kwargs)
WithKwargs(q, k) ==
    [symbol |-> q.symbol, name |-> q.name, isin |-> q.isin, kwargs |-> k]

\* What the registry answers to the three API requests.
Registries ==
    [candidates : CandidateLists, active : SUBSET CandidateLEIs,
     parents : ParentLists]

\* _resolve_lei_from_api against the registry reg: the LEI or None, and the
\* requests made.
ResolveFromApi(name, reg) ==
    LET search_call == << <<"autocomplete", name>> >>
        filtered == FilterActive(reg.candidates, reg.active)
        ranked == rank_candidates(name, filtered)
    IN IF reg.candidates = << >>
       THEN [lei |-> NoneVal, calls |-> search_call]
       ELSE IF ranked = << >>
       THEN [lei |-> NoneVal,
             calls |-> search_call \o << <<"active", name>> >>]
       ELSE [lei |-> TryParentTraversal(name, ranked[1][2], reg.parents),
             calls |-> search_call \o << <<"active", name>>,
                                         <<"parents", ranked[1][2]>> >>]

\* One fetch_equity call on a loaded feed st (index, client factory, name
\* cache): how it ends, the name cache afterwards and the requests made.
Resolve(q, st, reg) ==
    LET by_isin == _lookup_by_isin(q.isin, st.index)
        key == NameCacheKey(q.name)
        entry == st.cache[key]
        by_name == _resolve_cached_value(entry)
        api == ResolveFromApi(q.name, reg)
    IN IF by_isin # NoneVal
       THEN [result |-> Record(q, by_isin), cache |-> st.cache,
             calls |-> << >>]
       ELSE IF entry # NoneVal
       THEN [result |-> IF by_name = NoneVal THEN Raised("LookupError")
                        ELSE Record(q, by_name),
             cache |-> st.cache, calls |-> << >>]
       ELSE IF st.client_factory = NoneVal
       THEN [result |-> Raised("TypeError"), cache |-> st.cache,
             calls |-> << >>]
       ELSE [result |-> IF api.lei = NoneVal THEN Raised("LookupError")
                        ELSE Record(q, api.lei),
             cache |-> [st.cache EXCEPT ![key] = CachedValueFor(api.lei)],
             calls |-> api.calls]

Pending == [result |-> NoResult, cache |-> EmptyNameCache, calls |-> << >>]

\* The call of one side runs, from the state both sides start in.
KwRun(side) ==
    /\ kw.phase = "called"
    /\ kw.done[side] = FALSE
    /\ kw' = [kw EXCEPT
                !.done[side] = TRUE,
                !.out[side] = Resolve(kw.q[side], kw.state, kw.registry)]
    /\ UNCHANGED << feedSpecVars, search, gen, rank, csv, strip, sel >>

\* Two calls with the same symbol, name and isin and different extra
\* keyword arguments, each from the same feed, cache and registry state.
InitKw ==
    /\ FeedUnused
    /\ \E q \in Queries, ka, kb \in ExtraKwargs,
          index \in DownloadableIndices \cup {IndexNone},
          factory \in {"custom", NoneVal}, cache \in SeededNameCaches,
          reg \in Registries :
          /\ ka # kb
          /\ kw = [phase |-> "called",
                   q |-> [A |-> WithKwargs(q, ka), B |-> WithKwargs(q, kb)],
                   state |-> [index |-> index, client_factory |-> factory,
                              cache |-> cache],
                   registry |-> reg,
                   done |-> [A |-> FALSE, B |-> FALSE],
                   out |-> [A |-> Pending, B |-> Pending]]
    /\ search = Idle /\ gen = Idle /\ rank = Idle /\ csv = Idle
    /\ strip = Idle /\ sel = Idle

NextKw == \E side \in {"A", "B"} : KwRun(side)

SpecKw == InitKw /\ [][NextKw]_vars

\* C20: two fetch_equity calls run from the same feed, cache and registry
\* state with the same symbol, name and isin and different extra keyword
\* arguments end the same way, with the same cache writes and the same
\* network calls.
C20_KwargsIgnored ==
    (kw.done["A"] /\ kw.done["B"]) => kw.out["A"] = kw.out["B"]

\* Both calls ran the three API requests and returned a record, their
\* extra keyword arguments differing.
C20_Witness ==
    /\ kw.done["A"] /\ kw.done["B"]
    /\ kw.q["A"].kwargs # kw.q["B"].kwargs
    /\ Len(kw.out["A"].calls) = 3
    /\ kw.out["A"].result.kind = "record"
    /\ kw.out["A"].cache # kw.state.cache

\* ------------------------------------------- further claims on the feed
\* C21: once _loaded is set, whether the construction gave a populated
\* index, an empty one or none, the index never changes again and no call
\* starts another cache load or download; _get_index runs at most once.
C21_IndexBuiltOnceThenFrozen ==
    /\ [](getIndexCalls <= 1)
    /\ [](loaded => \A t \in Tasks : pc[t] \notin {"metadata", "stream"})
    /\ [][loaded =>
            /\ loaded'
            /\ isin_index' = isin_index
            /\ getIndexCalls' = getIndexCalls]_vars

\* The construction failed, and a call that came after it ended without
\* another construction.
C21_Witness ==
    \E t \in Tasks :
        /\ loaded /\ isin_index.none /\ getIndexCalls = 1
        /\ warm[t] /\ pc[t] = "done"

\* C22: a feed created with client_factory=None runs the API name search
\* with the default client: a call of it that reaches the API search ends
\* in a record or a LookupError.
C22_DefaultClientOnApiPath ==
    \A t \in Tasks :
        (client_factory = NoneVal /\ gateAcq[t] > 0 /\ pc[t] = "done") =>
            /\ result[t].kind \in {"record", "LookupError"}
            /\ apiCalls[t] > 0

TaskStep(t) ==
    \/ AcquireLock(t)
    \/ FetchMetadata(t)
    \/ StreamAndParse(t)
    \/ Lookup(t)
    \/ AcquireGate(t)
    \/ Autocomplete(t)
    \/ FilterAndRank(t)
    \/ ParentTraversal(t)
    \/ ExitGate(t)

SpecLive == Spec /\ \A t \in Tasks : WF_vars(TaskStep(t))

\* C28: every call that was made ends, with a record or with the
\* LookupError; no task holds the index lock and the admission gate at the
\* same time, and a call that ended holds neither.
C28_EveryCallEnds ==
    /\ [](\A t \in Tasks :
            /\ ~(lock = t /\ api_semaphore = t)
            /\ pc[t] = "done" => (lock # t /\ api_semaphore # t))
    /\ \A t \in Tasks :
          (pc[t] # "idle") ~>
              (pc[t] = "done" /\ result[t].kind \in {"record", "LookupError"})

\* The call of task t is answered by the ISIN index or by an entry of the
\* name cache.
AnsweredLocally(t) ==
    ContainsIsin(t) \/ name_cache[query[t].name] # NoneVal

\* C29: once the index is loaded a resolution that the ISIN index or an
\* entry of the name cache answers never acquires the gate and never
\* waits for it: its lookup can run whoever holds the gate, and ends the
\* call without a request and without touching the gate.
C29_LocalAnswerIgnoresGate ==
    /\ [](\A t \in Tasks : pc[t] = "lookup" => (loaded /\ ENABLED Lookup(t)))
    /\ [][\A t \in Tasks :
            (pc[t] = "lookup" /\ pc'[t] # "lookup" /\ AnsweredLocally(t)) =>
                /\ pc'[t] = "done"
                /\ gateAcq'[t] = 0 /\ apiCalls'[t] = 0
                /\ api_semaphore' = api_semaphore
         ]_vars

\* A call that the index or the name cache answers is at its lookup, free
\* to run, while another call holds the gate.
C29_Witness ==
    \E t, u \in Tasks :
        /\ t # u /\ api_semaphore = u /\ InApiSection(u)
        /\ pc[t] = "lookup" /\ AnsweredLocally(t)
        /\ ENABLED Lookup(t)

\* C30: the sentinel never escapes: no record fetch_equity returns has the
\* sentinel as its LEI, the index holds no empty LEI, the entry saved after
\* an API search that found an LEI is that LEI and not the sentinel, and a
\* saved LEI is read back as that LEI, never as no match.
C30_SentinelNeverEscapes ==
    /\ [](/\ \A t \in Tasks :
               result[t].kind = "record" =>
                   result[t].lei \notin {_NO_MATCH_SENTINEL, NoneVal}
          /\ \A i \in ISINs : isin_index.map[i] # _NO_MATCH_SENTINEL)
    /\ [][\A t \in Tasks :
            /\ (pc[t] = "exit_gate" /\ pc'[t] = "done"
                   /\ result'[t].kind = "record") =>
                  /\ name_cache'[query[t].name] = result'[t].lei
                  /\ name_cache'[query[t].name] # _NO_MATCH_SENTINEL
            /\ (pc[t] = "lookup" /\ pc'[t] # "lookup" /\ ~ContainsIsin(t)
                   /\ name_cache[query[t].name]
                         \notin {NoneVal, _NO_MATCH_SENTINEL}) =>
                  /\ result'[t].kind = "record"
                  /\ result'[t].lei = name_cache[query[t].name]
         ]_vars

\* One call got an LEI from the API search, and a later call for the same
\* name read that LEI back from the name cache.
C30_Witness ==
    \E t, u \in Tasks :
        /\ t # u /\ query[t].name = query[u].name
        /\ pc[t] = "done" /\ tier[t] = "api"
        /\ pc[u] = "done" /\ tier[u] = "name_cache"
        /\ cached[u] = result[t].lei
        /\ result[u].lei = result[t].lei

====
